---- MODULE Spec2Model ----
(***************************************************************************)
(* Digital Surveyor front end: the assessments page (vehicles.tsx lines    *)
(* 274-372), its postcode search form, the runAssessment client with its   *)
(* authenticated -> anonymous fallback, the session-token storage and the  *)
(* keyed GeoJSON overlay layers of the map.                                *)
(*                                                                         *)
(* Strings the code inspects character by character (postcodes) are        *)
(* sequences of one-character strings.  Two library behaviours the code    *)
(* relies on are modelled as the libraries implement them:                 *)
(*  - TanStack Query: MutationObserver.mutate() detaches the observer from *)
(*    the mutation it was following before it starts the new one, so the   *)
(*    callbacks given to mutate() and the hook's isPending/error follow    *)
(*    the latest mutate() call only;                                       *)
(*  - react-leaflet: a mounted <GeoJSON> never re-reads its data prop; the *)
(*    layer is rebuilt only when React remounts it (its key changes).      *)
(*  - Leaflet: L.Map's own _initContainer throws "Map container is already *)
(*    initialized." on a container that carries a _leaflet_id, and stamps  *)
(*    the container otherwise; map.remove() deletes the stamp and takes    *)
(*    the map's panes out of the container.                                *)
(* The later sections model the assessment panel (vehicle cards, notes     *)
(* editor), the vehicle envelope, the width markers' colours and the map   *)
(* container's initialisation, then useAuth's current-user query, the      *)
(* map's camera (FlyToAssessment) and the gradient overlay's style.        *)
(***************************************************************************)
EXTENDS Integers, Sequences, FiniteSets, TLC

VARIABLES
    token,            \* localStorage["access_token"]
    now,              \* Date.now(), milliseconds
    runs,             \* runAssessment calls, in order of issue
    lastDone,         \* the runAssessment call that returned or threw last
    mut,              \* the page's useRunAssessment() observer result
    result,           \* AssessmentsPage state: result
    selectedVehicle,  \* AssessmentsPage state: selectedVehicle
    layers,           \* the GeoJSON layers mounted on the map
    searchPostcode,   \* the ?postcode= search parameter of the route
    postcode,         \* PostcodeSearch state: postcode
    validationError,  \* PostcodeSearch state: validationError
    lastSubmit,       \* what the last handleSubmit did (cleared by an edit)
    applied,          \* the last ready/error transition applied to the view
    notesEditor,      \* AssessmentNotes: editing; the notes mutation: saving
    notesRequest,     \* the last PATCH /assessments/{id}/notes issued
    click,            \* the last click on a vehicle card
    vehicles,         \* the useVehicleProfiles() query: status and data
    anchor,           \* the DOM node the Leaflet map is created in
    maps,             \* the L.Map instances created, in order
    mapRef,           \* MapContainer's mapRef.current
    initError,        \* what the last `new L.Map(node)` threw
    assessment,       \* MapContainer's assessment prop at its last render
    camera,           \* the map's view and the flyTo calls made on it
    expiryCheck,      \* the last isLoggedIn() call and what it returned
    styled,           \* the last two width features styled by WidthMarkers
    userQuery,        \* useAuth's currentUser query: idle or fetching
    formatted,        \* the last value given to formatPostcode, and its result
    gradStyled        \* the last two gradient profiles styled by GradientOverlay

vars == <<token, now, runs, lastDone, mut, result, selectedVehicle, layers,
          searchPostcode, postcode, validationError, lastSubmit, applied,
          notesEditor, notesRequest, click, vehicles, anchor, maps, mapRef,
          initError, assessment, camera, expiryCheck, styled, userQuery,
          formatted, gradStyled>>

clientVars == <<token, now, runs, lastDone>>
viewVars ==
    <<mut, result, selectedVehicle, layers, searchPostcode, applied, notesEditor>>
formVars == <<postcode, validationError, lastSubmit>>
panelVars == <<click, vehicles, notesRequest>>
mapVars == <<anchor, maps, mapRef, initError, assessment, camera>>
calcVars == <<expiryCheck, styled, userQuery, formatted, gradStyled>>
sideVars == <<panelVars, mapVars, calcVars>>
notPanel == <<mapVars, calcVars>>
notMap == <<panelVars, calcVars>>
notCalc == <<panelVars, mapVars>>

----------------------------------------------------------------------------
(* Bounds *)

\* runAssessment calls issued in one behaviour
MaxRuns == 2
\* flyTo calls made on the map in one behaviour
MaxFlights == 3
\* L.Map instances created in one behaviour
MaxMaps == 6

----------------------------------------------------------------------------
(* Characters and strings *)

LowerLetters == {"a", "b", "n"}
UpperLetters == {"A", "B", "N"}
Digits == {"1"}
Whitespace == {" "}

IsLetter(c) == c \in LowerLetters \cup UpperLetters
IsDigit(c) == c \in Digits
IsSpace(c) == c \in Whitespace

\* String.prototype.toUpperCase, one character
UpperChar(c) ==
    CASE c = "a" -> "A"
      [] c = "b" -> "B"
      [] c = "n" -> "N"
      [] OTHER -> c

toUpperCase(s) == [i \in 1..Len(s) |-> UpperChar(s[i])]

RECURSIVE StripSpaces(_)
\* value.replace(/\s+/g, "")
StripSpaces(s) ==
    IF s = <<>> THEN <<>>
    ELSE IF IsSpace(Head(s)) THEN StripSpaces(Tail(s))
    ELSE <<Head(s)>> \o StripSpaces(Tail(s))

RECURSIVE TrimLeft(_)
TrimLeft(s) ==
    IF s # <<>> /\ IsSpace(Head(s)) THEN TrimLeft(Tail(s)) ELSE s

RECURSIVE TrimRight(_)
TrimRight(s) ==
    IF s # <<>> /\ IsSpace(s[Len(s)]) THEN TrimRight(SubSeq(s, 1, Len(s) - 1))
    ELSE s

\* String.prototype.trim
trim(s) == TrimRight(TrimLeft(s))

----------------------------------------------------------------------------
(* PostcodeSearch.tsx: POSTCODE_RE and formatPostcode *)

\* The positions (index of the next unread character) a regex element can
\* leave the match at, from the positions in P.
StepLetters1to2(s, P) ==
    {q \in 2..(Len(s) + 1) :
        \E p \in P : q - p \in 1..2 /\ \A i \in p..(q - 1) : IsLetter(s[i])}

StepDigit(s, P) == {p + 1 : p \in {q \in P : q <= Len(s) /\ IsDigit(s[q])}}

StepOptLetterOrDigit(s, P) ==
    P \cup {p + 1 : p \in {q \in P : q <= Len(s) /\ (IsLetter(s[q]) \/ IsDigit(s[q]))}}

StepSpaces(s, P) ==
    {q \in 1..(Len(s) + 1) :
        \E p \in P : p <= q /\ \A i \in p..(q - 1) : IsSpace(s[i])}

StepLetters2(s, P) ==
    {p + 2 : p \in {q \in P : q + 1 <= Len(s) /\ IsLetter(s[q]) /\ IsLetter(s[q + 1])}}

\* /^[A-Za-z]{1,2}\d[A-Za-z\d]?\s*\d[A-Za-z]{2}$/.test(s)
POSTCODE_RE_mutTwoLetters(s) ==
    (Len(s) + 1) \in
        StepLetters2(s, StepDigit(s, StepSpaces(s, StepOptLetterOrDigit(s,
            StepDigit(s, StepLetters2(s, {1}))))))

POSTCODE_RE(s) ==
    (Len(s) + 1) \in
        StepLetters2(s, StepDigit(s, StepSpaces(s, StepOptLetterOrDigit(s,
            StepDigit(s, StepLetters1to2(s, {1}))))))

formatPostcode_mutNoUpper(value) ==
    LET clean == StripSpaces(value)
    IN  IF Len(clean) > 3
        THEN SubSeq(clean, 1, Len(clean) - 3) \o <<" ">> \o
             SubSeq(clean, Len(clean) - 2, Len(clean))
        ELSE clean

formatPostcode_mutSplitAtTwo(value) ==
    LET clean == toUpperCase(StripSpaces(value))
    IN  IF Len(clean) > 3
        THEN SubSeq(clean, 1, Len(clean) - 2) \o <<" ">> \o
             SubSeq(clean, Len(clean) - 1, Len(clean))
        ELSE clean

formatPostcode(value) ==
    LET clean == toUpperCase(StripSpaces(value))
    IN  IF Len(clean) > 3
        THEN SubSeq(clean, 1, Len(clean) - 3) \o <<" ">> \o
             SubSeq(clean, Len(clean) - 2, Len(clean))
        ELSE clean

NoArg == <<"no call">>
ErrEmpty == "Enter a postcode"
ErrMalformed == "Invalid UK postcode format"

\* handleSubmit: the validation error it sets, and its call of onSubmit
handleSubmitOutcome(pc) ==
    LET trimmed == trim(pc)
    IN  IF trimmed = <<>>
        THEN [error |-> ErrEmpty, called |-> FALSE, arg |-> NoArg]
        ELSE IF ~POSTCODE_RE(trimmed)
        THEN [error |-> ErrMalformed, called |-> FALSE, arg |-> NoArg]
        ELSE [error |-> "", called |-> TRUE, arg |-> trimmed]

\* maxLength of the postcode input
InputMaxLength == 9

----------------------------------------------------------------------------
(* utils/token.ts *)

\* the payload carries no exp claim
NoExp == -1
\* localStorage.getItem returned null
NoToken == [empty |-> FALSE, parts |-> 0, decodable |-> FALSE, exp |-> NoExp]

\* A stored credential: the number of dot-separated segments, whether the
\* second one decodes (atob + JSON.parse) and the exp claim of the payload.
\* The empty string is a possible localStorage value.
EmptyToken == [empty |-> TRUE, parts |-> 1, decodable |-> FALSE, exp |-> NoExp]
JwtToken == [empty |-> FALSE, parts |-> 3, decodable |-> TRUE, exp |-> 100]
GarbageToken == [empty |-> FALSE, parts |-> 1, decodable |-> FALSE, exp |-> NoExp]
Tokens == {JwtToken, GarbageToken, EmptyToken}

\* decodeJwtPayload returned null; threw: an exception left the function
NoPayload == [exp |-> NoExp, usable |-> FALSE, threw |-> FALSE]
Thrown == [exp |-> NoExp, usable |-> FALSE, threw |-> TRUE]

\* lines 13-14: atob of the second segment, then JSON.parse; either throws
\* on a segment that is not base64url JSON
parsePayload(t) ==
    IF ~t.decodable THEN Thrown
    ELSE [exp |-> t.exp, usable |-> TRUE, threw |-> FALSE]

decodeJwtPayload_mutNoCatch(t) ==
    IF t.parts # 3 THEN NoPayload
    ELSE parsePayload(t)

\* lines 9-18: the try block and its catch
decodeJwtPayload(t) ==
    IF t.parts # 3 THEN NoPayload
    ELSE IF parsePayload(t).threw THEN NoPayload
    ELSE parsePayload(t)

isTokenExpired_mutStrict(t, clock) ==
    LET payload == decodeJwtPayload(t)
    IN  IF ~payload.usable \/ payload.exp = NoExp \/ payload.exp = 0 THEN TRUE
        ELSE clock > (payload.exp - 30) * 1000

isTokenExpired(t, clock) ==
    LET payload == decodeJwtPayload(t)
    IN  IF ~payload.usable \/ payload.exp = NoExp \/ payload.exp = 0 THEN TRUE
        ELSE clock >= (payload.exp - 30) * 1000

getAccessToken == token

\* `if (token)` / `!token`: null and "" are falsy
Truthy(t) == t # NoToken /\ ~t.empty

isLoggedIn ==
    IF ~Truthy(getAccessToken) THEN FALSE
    ELSE ~isTokenExpired(getAccessToken, now)

\* the instants Date.now() is observed at
NowPoints == {0, (JwtToken.exp - 30) * 1000}

\* decodable credentials by their exp claim (seconds), and instants
\* (milliseconds) around each one's expiry and 30 s before it
ExpValues == {0, 1, 30, 31, 60, 100}
ExpiryTokens == {[JwtToken EXCEPT !.exp = e] : e \in ExpValues}
\* credentials decodeJwtPayload gets no usable expiry from: two or four
\* segments around a well-formed payload, three segments whose second is not
\* base64url JSON, and a well-formed payload without an exp claim
MalformedTokens ==
    {[JwtToken EXCEPT !.parts = 2], [JwtToken EXCEPT !.parts = 4],
     [JwtToken EXCEPT !.decodable = FALSE, !.exp = NoExp],
     [JwtToken EXCEPT !.exp = NoExp]}
ExpiryClocks ==
    {c \in {e * 1000 + d : e \in ExpValues,
                           d \in {-60000, -30001, -30000, -29999, -1, 0, 1}} : c >= 0}

----------------------------------------------------------------------------
(* The backend, an oracle reached over HTTP *)

\* res.status; NetworkFailure stands for a fetch() that rejects
NoStatus == -1
NetworkFailure == 0
Stale == {401, 403, 404}
Statuses == {200, 500} \cup Stale

\* error bodies: {detail: string}, JSON without a detail, not JSON
DetailBody == [json |-> TRUE, detail |-> "Postcode not found"]
NoDetailBody == [json |-> TRUE, detail |-> ""]
NotJsonBody == [json |-> FALSE, detail |-> ""]
ErrorBodies == {DetailBody, NoDetailBody, NotJsonBody}

NoId == 0
NoGradient == -1
NoVehicle == "null"

\* What the key of each overlay is computed from, and the vehicle classes:
\* the number of width-measurement features, max_gradient_pct of the
\* gradient profile (NoGradient: gradient_profile is null), the first 100
\* characters of JSON.stringify(roads) and of JSON.stringify(buildings)
\* ("": no features).
\* latitude and longitude are in units of 1/DegUnit degree.
ShapeA ==
    [widths |-> 2, gradient |-> 4, roads |-> "r1", buildings |-> "b1",
     vehicles |-> {"luton_3_5t", "box_7_5t"},
     latitude |-> 50920, longitude |-> -130]
ShapeB ==
    [widths |-> 3, gradient |-> 9, roads |-> "r2", buildings |-> "b2",
     vehicles |-> {"luton_3_5t"},
     latitude |-> 51507, longitude |-> 128]
ShapeBare ==
    [widths |-> 0, gradient |-> NoGradient, roads |-> "", buildings |-> "",
     vehicles |-> {}, latitude |-> 0, longitude |-> 0]
DocShapes == {ShapeA, ShapeB, ShapeBare}

\* AssessmentResult; its geometry is that of its postcode
NoResult == [id |-> NoId, postcode |-> <<>>, shape |-> ShapeBare, present |-> FALSE]
ServerDoc(endpoint, run, p, shape) ==
    [id |-> IF endpoint = "auth" THEN run ELSE NoId,
     postcode |-> p, shape |-> shape, present |-> TRUE]

Responses ==
    {[status |-> 200, body |-> NotJsonBody, shape |-> sh] : sh \in DocShapes}
    \cup {[status |-> st, body |-> b, shape |-> ShapeBare] :
            st \in Statuses \ {200}, b \in ErrorBodies}
    \cup {[status |-> NetworkFailure, body |-> NotJsonBody, shape |-> ShapeBare]}

----------------------------------------------------------------------------
(* hooks/useAssessment.ts: runAssessment *)

\* lines 85-92 and 102-109: the message of the Error thrown
ErrorDetail_mutNoStatus(resp) ==
    IF resp.body.json /\ resp.body.detail # ""
    THEN [text |-> resp.body.detail, status |-> NoStatus]
    ELSE [text |-> "Assessment failed", status |-> NoStatus]

ErrorDetail(resp) ==
    IF resp.status = NetworkFailure
    THEN [text |-> "Failed to fetch", status |-> NoStatus]
    ELSE IF ~resp.body.json
    THEN [text |-> "Assessment failed", status |-> resp.status]
    ELSE IF resp.body.detail # ""
    THEN [text |-> resp.body.detail, status |-> NoStatus]
    ELSE [text |-> "Assessment failed", status |-> NoStatus]

ResOk_mutNever(resp) == FALSE

ResOk(resp) == resp.status \in 200..299

\* line 70, `if (token)`: which endpoint the first request goes to
FirstEndpoint_mutLoggedIn(tok) == IF isLoggedIn THEN "auth" ELSE "quick"

FirstEndpoint(tok) == IF Truthy(tok) THEN "auth" ELSE "quick"

NoError == [text |-> "", status |-> NoStatus]

\* one fetch(): the endpoint, the postcode of the query string and the
\* Authorization bearer (NoToken: no header)
Request(endpoint, p, tok) ==
    [endpoint |-> endpoint, postcode |-> p,
     bearer |-> IF endpoint = "auth" THEN tok ELSE NoToken]

\* A call of runAssessment: where it stands (pc: awaiting the "auth" or the
\* "quick" response, returned "ok", thrown "failed", or "done": settled and
\* forgotten), the requests it issued, the status and the body of the
\* authenticated response, the /quick response, and what it returned or
\* threw.
NoResponse == [status |-> NoStatus, body |-> NotJsonBody, shape |-> ShapeBare]
NoRun ==
    [id |-> 0, postcode |-> <<>>, pc |-> "done", requests |-> <<>>,
     authStatus |-> NoStatus, authBody |-> NotJsonBody, quick |-> NoResponse,
     res |-> NoResult, err |-> NoError]

\* line 82: the statuses that clear the credential and fall back
IsStale(status) == status = 401 \/ status = 403 \/ status = 404

\* lines 83 and 96-100 after a stale status: clearAuthState, then /quick
TokenAfterStale_mutKeep(tok) == tok

TokenAfterStale(tok) == NoToken

FallbackPostcode(p) == p

----------------------------------------------------------------------------
(* Map overlays: RoadOverlay, BuildingOverlay, WidthMarkers, GradientOverlay *)

LayerNames == {"roads", "buildings", "widths", "gradient"}
NoLayer == [key |-> "", geo |-> <<>>, mounted |-> FALSE]

\* `if (!data.features?.length) return null`, `if (!data) return null`, and
\* MapContainer's `assessment && ...` guards
Renders(doc, name) ==
    /\ doc.present
    /\ CASE name = "roads" -> doc.shape.roads # ""
         [] name = "buildings" -> doc.shape.buildings # ""
         [] name = "widths" -> doc.shape.widths # 0
         [] name = "gradient" -> doc.shape.gradient # NoGradient

\* the key prop of each <GeoJSON>
LayerKey(doc, name) ==
    CASE name = "roads" -> <<name, doc.shape.roads>>
      [] name = "buildings" -> <<name, doc.shape.buildings>>
      [] name = "widths" -> <<name, doc.shape.widths>>
      [] name = "gradient" -> <<name, doc.shape.gradient>>

\* React reconciliation of one <GeoJSON>: same key, the mounted layer stays
\* with the data it was created from; otherwise a new layer is created.
RenderLayer(old, doc, name) ==
    IF ~Renders(doc, name) THEN NoLayer
    ELSE IF old.mounted /\ old.key = LayerKey(doc, name) THEN old
    ELSE [key |-> LayerKey(doc, name), geo |-> doc.postcode, mounted |-> TRUE]

RenderLayers(old, doc) == [name \in LayerNames |-> RenderLayer(old[name], doc, name)]

----------------------------------------------------------------------------
(* routes/_layout/vehicles.tsx: AssessmentsPage, and useRunAssessment *)

IdleMutation == [current |-> 0, status |-> "idle", error |-> NoError]
NothingApplied ==
    [run |-> 0, kind |-> "none", prevSelected |-> NoVehicle, prevPostcode |-> <<>>]

isPending == mut.status = "pending"

InFlight == {i \in 1..Len(runs) : runs[i].pc \in {"auth", "quick"}}

\* MutationObserver: the observer follows run i (mutate() detached it from
\* every earlier one)
ObserverAttached_mutAllRuns(i) == TRUE

ObserverAttached(i) == mut.current = i

\* the onSuccess given to mutate(): setResult(data); setSelectedVehicle(null)
SelectionAfter_mutKeep(kind, sel) == sel

SelectionAfter(kind, sel) == IF kind = "success" THEN NoVehicle ELSE sel

\* no onError is given: a failure leaves result alone
ResultAfter_mutBlank(kind, data, cur) == IF kind = "success" THEN data ELSE NoResult

ResultAfter(kind, data, cur) == IF kind = "success" THEN data ELSE cur

\* AssessmentPanel lines 145-153: {result.id && <AssessmentNotes .../>}
NotesOffered_mutAlways(doc) == doc.present

NotesOffered(doc) == doc.present /\ doc.id # NoId

\* AssessmentNotes is unmounted, and its editing state lost, when the
\* result shown has no id; the notes mutation lives in AssessmentPanel
NotesClosed == [editing |-> FALSE, saving |-> FALSE]
NotesEditorAfter(doc) ==
    IF NotesOffered(doc) THEN notesEditor
    ELSE [notesEditor EXCEPT !.editing = FALSE]

\* The mutation of run i settles: the observer, if still attached, takes
\* the outcome, calls the mutate() callbacks and the page re-renders.
Settle(i, kind, data, err) ==
    IF ObserverAttached(i)
    THEN /\ mut' = [mut EXCEPT !.status = kind, !.error = err]
         /\ result' = ResultAfter(kind, data, result)
         /\ selectedVehicle' = SelectionAfter(kind, selectedVehicle)
         /\ layers' = RenderLayers(layers, ResultAfter(kind, data, result))
         /\ applied' = [run |-> i, kind |-> kind, prevSelected |-> selectedVehicle,
                        prevPostcode |-> result.postcode]
         /\ notesEditor' = NotesEditorAfter(ResultAfter(kind, data, result))
         /\ UNCHANGED searchPostcode
    ELSE UNCHANGED viewVars

\* runAssessment returns or throws: the call is over
Finish(i, run) ==
    /\ runs' = [runs EXCEPT ![i] = NoRun]
    /\ lastDone' = run

\* mutation.mutate(postcode, {onSuccess}) -> runAssessment(postcode), up to
\* its first await
handleSearch(p) ==
    /\ Len(runs) < MaxRuns
    /\ LET id == Len(runs) + 1
           tok == getAccessToken
           first == FirstEndpoint(tok)
       IN  /\ runs' = Append(runs,
                  [NoRun EXCEPT !.id = id, !.postcode = p, !.pc = first,
                                !.requests = <<Request(first, p, tok)>>])
           /\ mut' = [current |-> id, status |-> "pending", error |-> NoError]
    /\ UNCHANGED <<token, now, lastDone>>

\* the response of the authenticated request of run i (lines 71-94)
AuthResponse(i, resp) ==
    /\ i \in 1..Len(runs)
    /\ runs[i].pc = "auth"
    /\ UNCHANGED <<now, formVars, sideVars>>
    /\ IF resp.status # NetworkFailure /\ ResOk(resp)
       THEN LET doc == ServerDoc("auth", i, runs[i].postcode, resp.shape)
            IN  /\ Finish(i, [runs[i] EXCEPT !.pc = "ok", !.authStatus = resp.status,
                                             !.authBody = resp.body, !.res = doc])
                /\ Settle(i, "success", doc, NoError)
                /\ UNCHANGED token
       ELSE IF resp.status # NetworkFailure /\ IsStale(resp.status)
       THEN /\ token' = TokenAfterStale(token)
            /\ runs' = [runs EXCEPT
                  ![i].pc = "quick", ![i].authStatus = resp.status,
                  ![i].authBody = resp.body,
                  ![i].requests = Append(@,
                      Request("quick", FallbackPostcode(runs[i].postcode), NoToken))]
            /\ UNCHANGED <<viewVars, lastDone>>
       ELSE /\ Finish(i, [runs[i] EXCEPT !.pc = "failed", !.authStatus = resp.status,
                                         !.authBody = resp.body,
                                         !.err = ErrorDetail(resp)])
            /\ Settle(i, "error", NoResult, ErrorDetail(resp))
            /\ UNCHANGED token

\* the response of the /quick request of run i (lines 97-111)
QuickResponse(i, resp) ==
    /\ i \in 1..Len(runs)
    /\ runs[i].pc = "quick"
    /\ UNCHANGED <<now, formVars, token, sideVars>>
    /\ IF resp.status # NetworkFailure /\ ResOk(resp)
       THEN LET doc == ServerDoc("quick", i, runs[i].postcode, resp.shape)
            IN  /\ Finish(i, [runs[i] EXCEPT !.pc = "ok", !.quick = resp,
                                             !.res = doc])
                /\ Settle(i, "success", doc, NoError)
       ELSE /\ Finish(i, [runs[i] EXCEPT !.pc = "failed", !.quick = resp,
                                         !.err = ErrorDetail(resp)])
            /\ Settle(i, "error", NoResult, ErrorDetail(resp))

----------------------------------------------------------------------------
(* Inputs *)

\* values put into the postcode input in one change event
PastedValues == {<<"b", "n", "1", " ", "1", "a", "b">>}

\* characters typed into the postcode input one at a time
Keys == {"a", "A", "1", " ", "-"}

\* the value of the input after one keystroke in the value cur
KeystrokeEdits(cur) ==
    {SubSeq(cur, 1, i) \o <<c>> \o SubSeq(cur, i + 1, Len(cur)) :
        i \in 0..Len(cur), c \in Keys}
    \cup {SubSeq(cur, 1, i - 1) \o SubSeq(cur, i + 1, Len(cur)) : i \in 1..Len(cur)}

\* postcodes of the saved locations (stored trimmed and uppercased, never
\* matched against POSTCODE_RE)
SavedPostcodes == {<<"B", "1", " ", "1", "A", "B">>, <<"N", "1">>}

\* values of the ?postcode= search parameter
SearchParams == {<<"N", "1">>}

\* values typed into the dashboard's quick-assessment input
DashboardValues == {<<" ", "b", "1", " ", "1", "a", "b">>}

----------------------------------------------------------------------------
(* Actions *)

NoSubmit == [input |-> <<>>, error |-> "", called |-> FALSE, arg |-> NoArg, done |-> FALSE]

\* PostcodeSearch onChange (line 47); the input is disabled while loading
PostcodeChange(v) ==
    /\ ~isPending
    /\ Len(v) <= InputMaxLength
    /\ postcode' = formatPostcode(v)
    /\ validationError' = ""
    /\ lastSubmit' = NoSubmit
    /\ UNCHANGED <<clientVars, viewVars, sideVars>>

\* PostcodeSearch handleSubmit (lines 26-33), up to the call of the prop
\* onSubmit; the button is disabled while loading
FormSubmit ==
    /\ ~isPending
    /\ LET out == handleSubmitOutcome(postcode)
       IN  /\ validationError' = out.error
           /\ lastSubmit' = [input |-> postcode, error |-> out.error,
                             called |-> out.called, arg |-> out.arg, done |-> TRUE]
    /\ UNCHANGED <<postcode, sideVars>>

PageSearch(p) ==
    /\ handleSearch(p)
    /\ UNCHANGED <<result, selectedVehicle, layers, searchPostcode, applied,
                   notesEditor>>

\* the search form of the assessments page: onSubmit={handleSearch}
PostcodeSubmit ==
    /\ FormSubmit
    /\ IF handleSubmitOutcome(postcode).called
       THEN PageSearch(handleSubmitOutcome(postcode).arg)
       ELSE UNCHANGED <<clientVars, viewVars>>

\* SavedLocations: onClick={() => onSelectPostcode(loc.postcode)}
SavedLocationClick(p) ==
    /\ PageSearch(p)
    /\ UNCHANGED <<formVars, sideVars>>

\* the auto-run effect (lines 309-314), run when searchPostcode changes
SearchParamChange(p) ==
    /\ p # searchPostcode
    /\ searchPostcode' = p
    /\ IF p # <<>> /\ ~result.present /\ ~isPending
       THEN /\ handleSearch(p)
            /\ UNCHANGED <<result, selectedVehicle, layers, applied, notesEditor>>
       ELSE UNCHANGED <<clientVars, mut, result, selectedVehicle, layers, applied,
                        notesEditor>>
    /\ UNCHANGED <<formVars, sideVars>>

\* QuickAssessment.handleSubmit on the dashboard: navigate to
\* /assessments?postcode=..., which mounts a new AssessmentsPage whose
\* effect runs with no result and an idle mutation
DashboardQuickAssess(v) ==
    /\ trim(v) # <<>>
    /\ LET p == toUpperCase(trim(v))
       IN  /\ searchPostcode' = p
           /\ handleSearch(p)
    /\ result' = NoResult
    /\ selectedVehicle' = NoVehicle
    /\ layers' = [name \in LayerNames |-> NoLayer]
    /\ applied' = NothingApplied
    /\ notesEditor' = NotesClosed
    /\ postcode' = <<>>
    /\ validationError' = ""
    /\ lastSubmit' = NoSubmit
    /\ UNCHANGED sideVars

\* AssessmentPanel line 135: the argument onSelect gives onVehicleSelect
toggleTarget_mutClearFirst(sel, vc) == IF sel = NoVehicle THEN vc ELSE NoVehicle

toggleTarget(sel, vc) == IF sel = vc THEN NoVehicle ELSE vc

\* a selection that also resets the request state
onSelect_mutResetsRequest(vc) ==
    /\ result.present
    /\ vc \in result.shape.vehicles
    /\ selectedVehicle' = toggleTarget(selectedVehicle, vc)
    /\ layers' = RenderLayers(layers, result)
    /\ mut' = IdleMutation
    /\ UNCHANGED <<clientVars, formVars, result, searchPostcode, applied,
                   notesEditor>>

\* VehicleCard onClick={onSelect} of the card of vehicle class vc, with
\* onVehicleSelect={setSelectedVehicle}
onSelect(vc) ==
    /\ result.present
    /\ vc \in result.shape.vehicles
    /\ selectedVehicle' = toggleTarget(selectedVehicle, vc)
    /\ layers' = RenderLayers(layers, result)
    /\ UNCHANGED <<clientVars, formVars, mut, result, searchPostcode, applied,
                   notesEditor>>

\* AssessmentPanel: the onSelect of the card of vehicle class vc
SelectVehicle(vc) ==
    /\ onSelect(vc)
    /\ UNCHANGED sideVars

\* the same click, remembered: the card, the selection it found, whether a
\* request was pending, and a bit that tells one click from the next
NoClick ==
    [card |-> NoVehicle, before |-> NoVehicle, flip |-> FALSE, pending |-> FALSE]
CardClick(vc) ==
    /\ onSelect(vc)
    /\ click' = [card |-> vc, before |-> selectedVehicle, flip |-> ~click.flip,
                 pending |-> isPending]
    /\ UNCHANGED <<vehicles, notesRequest, notPanel>>

----------------------------------------------------------------------------
(* AssessmentNotes and hooks/useAssessment.ts: updateNotes *)

NoNotesRequest == [id |-> NoId, bearer |-> NoToken, flip |-> FALSE]

notesUnchanged ==
    UNCHANGED <<mut, result, selectedVehicle, layers, searchPostcode, applied,
                clientVars, formVars, click, vehicles, notPanel>>

\* the Add/Edit button: setEditing(true)
NotesEdit ==
    /\ NotesOffered(result)
    /\ ~notesEditor.editing
    /\ notesEditor' = [notesEditor EXCEPT !.editing = TRUE]
    /\ UNCHANGED notesRequest
    /\ notesUnchanged

\* handleCancel
NotesCancel ==
    /\ NotesOffered(result)
    /\ notesEditor.editing
    /\ notesEditor' = [notesEditor EXCEPT !.editing = FALSE]
    /\ UNCHANGED notesRequest
    /\ notesUnchanged

\* handleSave -> onSave(assessmentId, notes) -> notesMutation.mutate ->
\* updateNotes, up to its fetch; the button is disabled while saving
NotesSave ==
    /\ NotesOffered(result)
    /\ notesEditor.editing
    /\ ~notesEditor.saving
    /\ notesRequest' = [id |-> result.id,
                        bearer |-> IF Truthy(getAccessToken) THEN getAccessToken
                                   ELSE NoToken,
                        flip |-> ~notesRequest.flip]
    /\ notesEditor' = [editing |-> FALSE, saving |-> TRUE]
    /\ notesUnchanged

\* the PATCH is answered: the notes mutation settles either way
NotesResponse ==
    /\ notesEditor.saving
    /\ notesEditor' = [notesEditor EXCEPT !.saving = FALSE]
    /\ UNCHANGED notesRequest
    /\ notesUnchanged

----------------------------------------------------------------------------
(* hooks/useVehicles.ts and Map/VehicleOverlay.tsx: the vehicle envelope *)

\* VehicleProfile, lengths in centimetres
NoProfile ==
    [vehicle_class |-> "", width_cm |-> 0, length_cm |-> 0, turning_radius_cm |-> 0]
LutonProfile ==
    [vehicle_class |-> "luton_3_5t", width_cm |-> 220, length_cm |-> 650,
     turning_radius_cm |-> 700]
LutonWideProfile ==
    [vehicle_class |-> "luton_3_5t", width_cm |-> 440, length_cm |-> 1300,
     turning_radius_cm |-> 710]
BoxProfile ==
    [vehicle_class |-> "box_7_5t", width_cm |-> 250, length_cm |-> 800,
     turning_radius_cm |-> 950]

\* what GET /vehicles/ can return
Catalogues ==
    {<<LutonProfile, BoxProfile>>, <<LutonProfile>>, <<LutonWideProfile, LutonProfile>>,
     <<>>}

\* the query: data is undefined (NoData) until a fetch has succeeded
NoData == <<NoProfile>>
VehiclesPending == [status |-> "pending", data |-> NoData]

\* queryFn resolved with the catalogue cat
VehiclesFetched(cat) ==
    /\ vehicles' = [status |-> "success", data |-> cat]
    /\ UNCHANGED <<click, notesRequest, clientVars, viewVars, formVars, notPanel>>

\* queryFn threw "Failed to fetch vehicles" (or fetch rejected); data of an
\* earlier success is kept
VehiclesFailed ==
    /\ vehicles.status # "error"
    /\ vehicles' = [vehicles EXCEPT !.status = "error"]
    /\ UNCHANGED <<click, notesRequest, clientVars, viewVars, formVars, notPanel>>

\* vehicles?.find((v) => v.vehicle_class === vehicleClass)
findVehicle(data, vehicleClass) ==
    IF data = NoData THEN NoProfile
    ELSE LET hits == {i \in 1..Len(data) : data[i].vehicle_class = vehicleClass}
         IN  IF hits = {} THEN NoProfile
             ELSE data[CHOOSE i \in hits : \A j \in hits : i <= j]

\* 1/DegUnit degree is the unit of every latitude and longitude: the
\* smallest in which a centimetre of width (over 69000 m per degree) and a
\* centimetre of length (over 111320 m per degree) are both whole numbers
DegUnit == 1669800000
halfWidthDeg_mutNoHalf(width_cm) == width_cm * (DegUnit \div (100 * 69000))

halfWidthDeg(width_cm) == width_cm * (DegUnit \div (100 * 2 * 69000))
halfLengthDeg(length_cm) == length_cm * (DegUnit \div (100 * 2 * 111320))

\* L.latLngBounds([south, west], [north, east])
latLngBounds(south, west, north, east) ==
    [south |-> south, west |-> west, north |-> north, east |-> east]

\* what VehicleOverlay renders: nothing, or a Rectangle and a Circle
NoEnvelope ==
    [rendered |-> FALSE, bounds |-> latLngBounds(0, 0, 0, 0),
     center |-> <<0, 0>>, radius_cm |-> 0]

VehicleOverlay_mutDefault(doc, vehicleClass) ==
    [rendered |-> TRUE, bounds |-> latLngBounds(0, 0, 0, 0),
     center |-> <<doc.shape.latitude, doc.shape.longitude>>, radius_cm |-> 0]

VehicleOverlay(doc, vehicleClass) ==
    LET vehicle == findVehicle(vehicles.data, vehicleClass)
        lat == doc.shape.latitude
        lon == doc.shape.longitude
    IN  IF vehicle = NoProfile THEN NoEnvelope
        ELSE [rendered |-> TRUE,
              bounds |-> latLngBounds(lat - halfLengthDeg(vehicle.length_cm),
                                      lon - halfWidthDeg(vehicle.width_cm),
                                      lat + halfLengthDeg(vehicle.length_cm),
                                      lon + halfWidthDeg(vehicle.width_cm)),
              center |-> <<lat, lon>>,
              radius_cm |-> vehicle.turning_radius_cm]

\* MapContainer: {selectedVehicle && <VehicleOverlay .../>} inside
\* {assessment && ...}
Envelope ==
    IF result.present /\ selectedVehicle # NoVehicle
    THEN VehicleOverlay(result, selectedVehicle)
    ELSE NoEnvelope

----------------------------------------------------------------------------
(* Map/MapContainer: the Leaflet map and its container *)

\* The container element: its _leaflet_id stamp (NoStamp: none) and the
\* map instances whose panes and controls are among its child nodes.
NoStamp == 0
EmptyAnchor == [leaflet_id |-> NoStamp, children |-> {}]
NoMap == 0
NoInitError == ""
AlreadyInitialized == "Map container is already initialized."

\* L.Map.prototype._initContainer as Leaflet defines it: throws on a
\* stamped container, else stamps it (Util.stamp) for instance m
origInitContainer(a, m) ==
    IF a.leaflet_id # NoStamp
    THEN [anchor |-> a, error |-> AlreadyInitialized]
    ELSE [anchor |-> [a EXCEPT !.leaflet_id = m], error |-> NoInitError]

\* lines 36-49: the patched _initContainer
initContainer_mutNoPatch(a, m) == origInitContainer(a, m)

initContainer(a, m) ==
    IF a.leaflet_id # NoStamp
    THEN origInitContainer([leaflet_id |-> NoStamp, children |-> {}], m)
    ELSE origInitContainer(a, m)

\* react-leaflet's ref callback: new L.Map(node).  It runs on mount, and
\* again on the same node (still stamped, nothing removed) when StrictMode
\* remounts.  The constructor initialises the container, then adds its
\* panes to it; the instance becomes mapRef.current.
NewMap ==
    /\ Len(maps) < MaxMaps
    /\ LET m == Len(maps) + 1
           init == initContainer(anchor, m)
       IN  IF init.error # NoInitError
           THEN /\ initError' = init.error
                /\ UNCHANGED <<anchor, maps, mapRef>>
           ELSE /\ anchor' = [init.anchor EXCEPT !.children = @ \cup {m}]
                /\ maps' = Append(maps, [containerId |-> m, removed |-> FALSE])
                /\ mapRef' = m
                /\ initError' = NoInitError
    /\ UNCHANGED <<assessment, camera, clientVars, viewVars, formVars, notMap>>

\* lines 67-74: the cleanup of MapContainer's effect; map.remove() clears
\* the stamp and takes the instance's panes out of the container
UnmountMap ==
    /\ mapRef # NoMap
    /\ anchor' = [leaflet_id |-> NoStamp,
                  children |-> anchor.children \ {mapRef}]
    /\ maps' = [maps EXCEPT ![mapRef].removed = TRUE]
    /\ mapRef' = NoMap
    /\ UNCHANGED <<initError, assessment, camera, clientVars, viewVars, formVars,
                   notMap>>

----------------------------------------------------------------------------
(* Map/MapContainer: FlyToAssessment *)

\* coordinates in thousandths of a degree, durations in tenths of a second
DEFAULT_CENTRE == <<50920, -130>>
DEFAULT_ZOOM == 10
ASSESSMENT_ZOOM == 17
FlyDuration == 15

\* <LeafletMap center={DEFAULT_CENTRE} zoom={DEFAULT_ZOOM}>, no flyTo yet
DefaultCamera == [centre |-> DEFAULT_CENTRE, zoom |-> DEFAULT_ZOOM, flights |-> <<>>]

\* map.flyTo(latlng, zoom, {duration})
flyTo(cam, latlng, zoom, duration) ==
    [centre |-> latlng, zoom |-> zoom,
     flights |-> Append(cam.flights,
                        [centre |-> latlng, zoom |-> zoom, duration |-> duration])]

\* lines 56-62 and 93-95: FlyToAssessment is mounted while an assessment
\* is given; its effect runs on mount and when lat or lon changes
FlyToAssessment(cam, old, new) ==
    IF ~new.present THEN cam
    ELSE IF /\ old.present
            /\ old.shape.latitude = new.shape.latitude
            /\ old.shape.longitude = new.shape.longitude
    THEN cam
    ELSE flyTo(cam, <<new.shape.latitude, new.shape.longitude>>,
               ASSESSMENT_ZOOM, FlyDuration)

\* the results the page can hand to the map
MapDocs ==
    {ServerDoc(endpoint, i, p, shape) :
        endpoint \in {"auth", "quick"}, i \in 1..MaxRuns,
        p \in SavedPostcodes, shape \in DocShapes}

\* MapContainer is rendered with a new assessment
RenderMap(doc) ==
    /\ doc # assessment
    /\ Len(camera.flights) < MaxFlights
    /\ assessment' = doc
    /\ camera' = FlyToAssessment(camera, assessment, doc)
    /\ UNCHANGED <<anchor, maps, mapRef, initError, clientVars, viewVars, formVars,
                   notMap>>

\* useAuth login: setAccessToken(response.access_token)
Login(t) ==
    /\ token' = t
    /\ UNCHANGED <<now, runs, lastDone, viewVars, formVars, sideVars>>

\* useAuth logout: clearAuthState()
Logout ==
    /\ token # NoToken
    /\ token' = NoToken
    /\ UNCHANGED <<now, runs, lastDone, viewVars, formVars, sideVars>>

\* time passes
Tick(t) ==
    /\ t > now
    /\ now' = t
    /\ UNCHANGED <<token, runs, lastDone, viewVars, formVars, sideVars>>

----------------------------------------------------------------------------
(* utils/token.ts: a call of isLoggedIn *)

NoExpiryCheck ==
    [token |-> NoToken, clock |-> 0, asked |-> FALSE, expired |-> FALSE,
     loggedIn |-> FALSE, threw |-> FALSE]

\* isLoggedIn() that also drops the credential it read
CheckLoggedIn_mutClears ==
    /\ expiryCheck' =
           [token |-> getAccessToken, clock |-> now,
            asked |-> Truthy(getAccessToken),
            expired |-> Truthy(getAccessToken) /\ isTokenExpired(getAccessToken, now),
            loggedIn |-> isLoggedIn, threw |-> FALSE]
    /\ token' = NoToken
    /\ UNCHANGED <<formatted, gradStyled, styled, userQuery, now, runs, lastDone, viewVars, formVars, notCalc>>

\* isLoggedIn() (lines 31-35) at the current instant; asked: it went as far
\* as isTokenExpired(token)
CheckLoggedIn ==
    /\ expiryCheck' =
           [token |-> getAccessToken, clock |-> now,
            asked |-> Truthy(getAccessToken),
            expired |-> Truthy(getAccessToken) /\ isTokenExpired(getAccessToken, now),
            loggedIn |-> isLoggedIn,
            threw |-> Truthy(getAccessToken) /\ decodeJwtPayload(getAccessToken).threw]
    /\ UNCHANGED <<formatted, gradStyled, styled, userQuery, clientVars, viewVars, formVars, notCalc>>

----------------------------------------------------------------------------
(* useAuth: the currentUser query *)

\* the statuses UsersService.readUserMe() answers with
UserStatuses == {200, 401, 403, 500}

\* useQuery({queryKey: ["currentUser"], enabled: isLoggedIn()}): a render
\* that finds a live credential starts the fetch
FetchCurrentUser ==
    /\ userQuery = "idle"
    /\ isLoggedIn
    /\ userQuery' = "fetching"
    /\ UNCHANGED <<formatted, gradStyled, expiryCheck, styled, clientVars, viewVars, formVars, notCalc>>

\* queryFn: readUserMe() answered; 401 and 403 call clearAuthState and
\* give null, any other failure is rethrown
CurrentUserResponse(status) ==
    /\ userQuery = "fetching"
    /\ userQuery' = "idle"
    /\ token' = IF status = 401 \/ status = 403 THEN NoToken ELSE token
    /\ UNCHANGED <<formatted, gradStyled, expiryCheck, styled, now, runs, lastDone, viewVars, formVars,
                   notCalc>>

----------------------------------------------------------------------------
(* Map/WidthMarkers: the style of a width-measurement feature *)

\* feature.properties.width_m in centimetres; NoWidth: the property (or
\* the feature) is missing
NoWidth == -1
WidthValues == {NoWidth, 0, 1, 290, 299, 300, 301, 350, 399, 400, 401, 450}

\* lines 51-55, widths in centimetres
getWidthColor_mutExclusive(width) ==
    IF width > 400 THEN "#22c55e"
    ELSE IF width > 300 THEN "#f59e0b"
    ELSE "#ef4444"

getWidthColor(width) ==
    IF width >= 400 THEN "#22c55e"
    ELSE IF width >= 300 THEN "#f59e0b"
    ELSE "#ef4444"

\* lines 63-70: const width = feature?.properties?.width_m || 0
featureStyle(width_cm) ==
    LET width == IF width_cm = NoWidth \/ width_cm = 0 THEN 0 ELSE width_cm
    IN  [width_cm |-> width_cm, color |-> getWidthColor(width)]

NoStyle == [width_cm |-> NoWidth, color |-> ""]

\* Leaflet asks the style of a feature; the last two answers are kept
StyleFeature(width_cm) ==
    /\ styled' = <<styled[2], featureStyle(width_cm)>>
    /\ UNCHANGED <<formatted, gradStyled, expiryCheck, userQuery, clientVars, viewVars, formVars, notCalc>>

----------------------------------------------------------------------------
(* PostcodeSearch: formatPostcode applied to the value of the input *)

NoFormat == [input |-> <<>>, output |-> <<>>, done |-> FALSE]

\* values of the input element: outward code, optional whitespace, inward
\* code, in either case, and values that are not postcodes
FormatInputs ==
    {out \o gap \o inw :
        out \in {<<"B", "1">>, <<"b", "1">>, <<"B", "N", "1">>, <<"b", "n", "1">>,
                 <<"B", "n", "1">>, <<"N", "1", "A">>, <<"n", "1", "a">>,
                 <<"B", "N", "1", "A">>, <<"b", "n", "1", "a">>, <<"B", "1", "1">>},
        gap \in {<<>>, <<" ">>, <<" ", " ">>},
        inw \in {<<"1", "A", "B">>, <<"1", "a", "b">>, <<"1", "A", "b">>,
                 <<"1", "n", "n">>}}
    \cup {<<>>, <<"B", "1">>, <<"1", "A", "B">>, <<"B", "1", " ", "1", "A">>,
          <<"B", "-", "1", " ", "1", "A", "B">>, <<" ", "B", "1", "1", "A", "B">>,
          <<"B", " ", "1", "1", "A", "B">>, <<"B", "1", "1", " ", "A", "B">>}

\* onChange: formatPostcode(e.target.value)
FormatValue(v) ==
    /\ Len(v) <= InputMaxLength
    /\ formatted' = [input |-> v, output |-> formatPostcode(v), done |-> TRUE]
    /\ UNCHANGED <<expiryCheck, styled, userQuery, gradStyled, clientVars, viewVars,
                   formVars, notCalc>>

----------------------------------------------------------------------------
(* Map/GradientOverlay: the style of the gradient profile *)

\* data.properties.max_gradient_pct in tenths of a percent; MissingGradient:
\* the property is absent
MissingGradient == -1000
GradientValues == {MissingGradient, -10, 0, 1, 49, 50, 51, 65, 79, 80, 81, 200}

\* lines 64-68, gradients in tenths of a percent
getGradientColor_mutExclusive(gradientPct) ==
    IF gradientPct < 50 THEN "#22c55e"
    ELSE IF gradientPct < 80 THEN "#f59e0b"
    ELSE "#ef4444"

getGradientColor(gradientPct) ==
    IF gradientPct <= 50 THEN "#22c55e"
    ELSE IF gradientPct <= 80 THEN "#f59e0b"
    ELSE "#ef4444"

\* lines 72-77: maxGrad = data.properties?.max_gradient_pct || 0, and the
\* PathOptions (opacity in tenths)
gradientStyle(max_gradient) ==
    LET maxGrad == IF max_gradient = MissingGradient \/ max_gradient = 0 THEN 0
                   ELSE max_gradient
    IN  [max_gradient |-> max_gradient, color |-> getGradientColor(maxGrad),
         weight |-> 5, opacity |-> 8]

NoGradientStyle ==
    [max_gradient |-> MissingGradient, color |-> "", weight |-> 0, opacity |-> 0]

\* GradientOverlay renders a profile; the last two styles are kept
StyleGradient(max_gradient) ==
    /\ gradStyled' = <<gradStyled[2], gradientStyle(max_gradient)>>
    /\ UNCHANGED <<expiryCheck, styled, userQuery, formatted, clientVars, viewVars,
                   formVars, notCalc>>

----------------------------------------------------------------------------
(* Specifications *)

Init ==
    /\ token \in {NoToken, JwtToken}
    /\ now = 0
    /\ runs = <<>>
    /\ lastDone = NoRun
    /\ mut = IdleMutation
    /\ result = NoResult
    /\ selectedVehicle = NoVehicle
    /\ layers = [name \in LayerNames |-> NoLayer]
    /\ searchPostcode = <<>>
    /\ postcode = <<>>
    /\ validationError = ""
    /\ lastSubmit = NoSubmit
    /\ applied = NothingApplied
    /\ notesEditor = NotesClosed
    /\ notesRequest = NoNotesRequest
    /\ click = NoClick
    /\ vehicles = VehiclesPending
    /\ anchor = EmptyAnchor
    /\ maps = <<>>
    /\ mapRef = NoMap
    /\ initError = NoInitError
    /\ assessment = NoResult
    /\ camera = DefaultCamera
    /\ expiryCheck = NoExpiryCheck
    /\ styled = <<NoStyle, NoStyle>>
    /\ userQuery = "idle"
    /\ formatted = NoFormat
    /\ gradStyled = <<NoGradientStyle, NoGradientStyle>>

\* The assessments page: every way it starts a request, the selection,
\* and the responses.
PageResponses ==
    {r \in Responses :
        /\ r.status \in {200, 401, 500}
        /\ r.body \in {DetailBody, NotJsonBody}
        /\ r.status # 200 => r.body = DetailBody
        /\ r.status = 200 => r.shape \in {ShapeA, ShapeB}}

Next ==
    \/ \E v \in PastedValues : PostcodeChange(v)
    \/ PostcodeSubmit
    \/ \E p \in SavedPostcodes : SavedLocationClick(p)
    \/ \E p \in SearchParams \cup {<<>>} : SearchParamChange(p)
    \/ \E v \in DashboardValues : DashboardQuickAssess(v)
    \/ \E vc \in {"luton_3_5t", "box_7_5t"} : SelectVehicle(vc)
    \/ \E i \in 1..MaxRuns, resp \in PageResponses : AuthResponse(i, resp)
    \/ \E i \in 1..MaxRuns, resp \in PageResponses : QuickResponse(i, resp)

Spec == Init /\ [][Next]_vars

\* runAssessment and the session storage: requests started from the saved
\* locations, logins and logouts, the clock, every response.
ClientAuthResponses ==
    {r \in Responses :
        /\ r.status = 200 => r.shape = ShapeA
        /\ r.status \in Stale => r.body = NotJsonBody
        /\ r.status = 500 => r.body \in {DetailBody, NotJsonBody}}
ClientQuickResponses ==
    {r \in Responses :
        /\ r.status \in {200, 404, 500}
        /\ r.status = 200 => r.shape = ShapeA
        /\ r.status = 404 => r.body = NotJsonBody
        /\ r.status = 500 => r.body = DetailBody}
ClientPostcodes == {<<"B", "1", " ", "1", "A", "B">>}

NextClient ==
    \/ \E p \in ClientPostcodes : SavedLocationClick(p)
    \/ \E t \in Tokens : Login(t)
    \/ Logout
    \/ \E t \in NowPoints : Tick(t)
    \/ \E i \in 1..MaxRuns, resp \in ClientAuthResponses : AuthResponse(i, resp)
    \/ \E i \in 1..MaxRuns, resp \in ClientQuickResponses : QuickResponse(i, resp)

SpecClient == Init /\ [][NextClient]_vars

\* The search form alone, typed into key by key, with an onSubmit that only
\* records its argument.
FormSubmitRecorded ==
    /\ FormSubmit
    /\ UNCHANGED <<clientVars, viewVars>>

NextForm ==
    \/ \E v \in KeystrokeEdits(postcode) : PostcodeChange(v)
    \/ FormSubmitRecorded

SpecForm == Init /\ [][NextForm]_vars

\* The assessment panel: results arrive for saved locations and the
\* vehicle cards are clicked.
VehicleClasses == {"luton_3_5t", "box_7_5t"}
PanelResponses ==
    {r \in Responses :
        /\ r.status \in {200, 500}
        /\ r.status = 200 => r.shape \in {ShapeA, ShapeB}
        /\ r.status = 500 => r.body = DetailBody}

NextPanel ==
    \/ \E p \in ClientPostcodes : SavedLocationClick(p)
    \/ \E vc \in VehicleClasses : CardClick(vc)
    \/ \E cat \in Catalogues : VehiclesFetched(cat)
    \/ VehiclesFailed
    \/ \E i \in 1..MaxRuns, resp \in PanelResponses : AuthResponse(i, resp)
    \/ \E i \in 1..MaxRuns, resp \in PanelResponses : QuickResponse(i, resp)

SpecPanel == Init /\ [][NextPanel]_vars

\* The notes editor: results arrive from either endpoint, the user logs
\* out, and the notes are edited and saved.
NextNotes ==
    \/ \E p \in ClientPostcodes : SavedLocationClick(p)
    \/ Logout
    \/ NotesEdit
    \/ NotesCancel
    \/ NotesSave
    \/ NotesResponse
    \/ \E i \in 1..MaxRuns, resp \in PanelResponses : AuthResponse(i, resp)
    \/ \E i \in 1..MaxRuns, resp \in PanelResponses : QuickResponse(i, resp)

SpecNotes == Init /\ [][NextNotes]_vars

\* The session token: credentials of every expiry are stored, time passes,
\* and isLoggedIn is asked.
NextExpiry ==
    \/ \E t \in ExpiryTokens \cup Tokens \cup MalformedTokens : Login(t)
    \/ Logout
    \/ \E t \in ExpiryClocks : Tick(t)
    \/ CheckLoggedIn

SpecExpiry == Init /\ [][NextExpiry]_vars

\* The session storage: every reader and every writer of the credential.
StorageResponses ==
    {r \in Responses :
        /\ r.status \in {200, 401, 500}
        /\ r.status = 200 => r.shape = ShapeA
        /\ r.status # 200 => r.body = NotJsonBody}

NextStorage ==
    \/ \E p \in ClientPostcodes : SavedLocationClick(p)
    \/ \E t \in {JwtToken, GarbageToken} : Login(t)
    \/ Logout
    \/ CheckLoggedIn
    \/ FetchCurrentUser
    \/ \E status \in UserStatuses : CurrentUserResponse(status)
    \/ \E i \in 1..MaxRuns, resp \in StorageResponses : AuthResponse(i, resp)
    \/ \E i \in 1..MaxRuns, resp \in StorageResponses : QuickResponse(i, resp)

SpecStorage == Init /\ [][NextStorage]_vars

\* The width markers: features of every width are styled.
NextWidth == \E w \in WidthValues : StyleFeature(w)

SpecWidth == Init /\ [][NextWidth]_vars

\* The map container: mounts, StrictMode remounts and unmounts.
NextMap ==
    \/ NewMap
    \/ UnmountMap

SpecMap == Init /\ [][NextMap]_vars

\* formatPostcode over the values of the input.
NextFormat == \E v \in FormatInputs : FormatValue(v)

SpecFormat == Init /\ [][NextFormat]_vars

\* The gradient overlay: profiles of every maximum gradient are styled.
NextGradient == \E g \in GradientValues : StyleGradient(g)

SpecGradient == Init /\ [][NextGradient]_vars

\* The map's camera: results are handed to MapContainer one after another.
NextCamera == \E doc \in MapDocs : RenderMap(doc)

SpecCamera == Init /\ [][NextCamera]_vars

----------------------------------------------------------------------------
(* Claims *)

\* every runAssessment call the state still describes
KnownRuns ==
    {runs[i] : i \in {j \in 1..Len(runs) : runs[j].pc # "done"}}
    \cup (IF lastDone.id # 0 THEN {lastDone} ELSE {})

C1_FallbackShape ==
    \A r \in KnownRuns :
        r.authStatus \in {401, 403, 404} =>
            /\ Len(r.requests) = 2
            /\ r.requests[1].endpoint = "auth"
            /\ r.requests[2].endpoint = "quick"
            /\ r.requests[2].bearer = NoToken
            /\ r.requests[2].postcode = r.postcode
            /\ r.requests[1].postcode = r.postcode
            /\ r.pc \in {"quick", "ok", "failed"}
            /\ r.pc = "quick" => r.quick = NoResponse
            /\ r.pc = "ok" =>
                   /\ r.quick.status = 200
                   /\ r.res.present /\ r.res.id = NoId
                   /\ r.res.postcode = r.postcode /\ r.res.shape = r.quick.shape
            /\ r.pc = "failed" =>
                   /\ r.quick.status # 200 /\ r.quick # NoResponse
                   /\ r.err # NoError
                   /\ r.quick.body = DetailBody => r.err.text = DetailBody.detail
                   /\ r.quick.status \in Statuses /\ r.quick.body = NotJsonBody =>
                          r.err = [text |-> "Assessment failed", status |-> r.quick.status]

C1_ClearsOnStale ==
    \A i \in 1..Len(runs) :
        runs[i].pc = "auth" /\ runs'[i].pc = "quick" =>
            /\ token' = NoToken
            /\ runs'[i].authStatus \in {401, 403, 404}

\* C1: an authenticated request answered 401, 403 or 404 clears the stored
\* credential and is followed by exactly one anonymous /quick request with
\* the same postcode, whose outcome is the outcome of the run.
C1_StaleTokenFallback == [](C1_FallbackShape) /\ [][C1_ClearsOnStale]_vars

C1_Witness ==
    /\ lastDone.authStatus \in {401, 403, 404}
    /\ lastDone.pc = "ok"
    /\ token = NoToken

C2_Issued == Len(runs') > Len(runs)
C2_First == runs'[Len(runs')].requests[1]

\* C2: the authenticated request is issued first only when the stored
\* credential exists and is not expired (isLoggedIn); otherwise only the
\* anonymous /quick request is issued.
C2_AuthOnlyWhenLoggedIn ==
    [][C2_Issued => (C2_First.endpoint = "auth" <=> isLoggedIn)]_vars

\* C2, amended: the authenticated request is issued first exactly when a
\* non-empty credential is stored, expired or not, and carries it; with no
\* credential (or an empty one) only the anonymous request is issued.
C2_AuthWhenTokenStored ==
    [][C2_Issued =>
        /\ Len(runs'[Len(runs')].requests) = 1
        /\ C2_First.endpoint = "auth" <=> (token # NoToken /\ ~token.empty)
        /\ C2_First.endpoint = "auth" => C2_First.bearer = token
        /\ C2_First.endpoint # "auth" => C2_First.endpoint = "quick"]_vars

C2_Witness ==
    \E r \in KnownRuns :
        /\ r.requests[1].endpoint = "auth"
        /\ isTokenExpired(r.requests[1].bearer, 0)

\* C3: at most one assessment request is in flight at any time.
C3_AtMostOneInFlight == Cardinality(InFlight) <= 1

C4_Applies == applied' # applied /\ applied'.kind # "none"

\* C4: the ready/error transition applied to the view is always that of the
\* most recently issued request, and never that of an earlier request after
\* a later one.
C4_OrderingGuarantee ==
    [][C4_Applies =>
        /\ applied'.run = Len(runs')
        /\ applied'.run >= applied.run
        /\ mut'.current = applied'.run
        /\ mut'.status \in {"success", "error"}]_vars

C4_Witness ==
    /\ applied.run = 2
    /\ Len(runs) = 2
    /\ runs[1].pc \in {"auth", "quick"}

\* C5: whenever a successful result replaces the current one, the selected
\* vehicle class is reset to none and the result is the one received.
C5_SuccessResetsSelection ==
    [][/\ (applied' # applied /\ applied'.kind = "success") =>
              /\ selectedVehicle' = NoVehicle
              /\ result' = lastDone'.res
              /\ result'.present
              /\ mut'.status = "success"
       /\ result' # result /\ result'.present => selectedVehicle' = NoVehicle]_vars

C5_Witness ==
    /\ applied.kind = "success"
    /\ applied.prevSelected # NoVehicle
    /\ applied.prevPostcode # <<>>
    /\ selectedVehicle = NoVehicle

\* C6: every overlay on the map shows the geometry of the displayed result.
C6_OverlaysShowCurrentResult ==
    \A name \in LayerNames :
        /\ layers[name].mounted => layers[name].geo = result.postcode
        /\ layers[name].mounted <=> Renders(result, name)

\* C7: a failed request puts the view in the error state with the failure
\* message and leaves the displayed result and the selection unchanged.
C7_ErrorKeepsResult ==
    [][(applied' # applied /\ applied'.kind = "error") =>
        /\ mut'.status = "error"
        /\ mut'.error = lastDone'.err
        /\ mut'.error # NoError
        /\ result' = result
        /\ selectedVehicle' = selectedVehicle
        /\ layers' = layers]_vars

C7_Witness ==
    /\ applied.kind = "error"
    /\ mut.status = "error"
    /\ result.present
    /\ applied.prevSelected # NoVehicle
    /\ selectedVehicle = applied.prevSelected

\* the pattern: 1-2 letters, 1 digit, optional letter or digit, optional
\* whitespace, 1 digit, 2 letters
MatchesPattern(s) ==
    \E l \in 1..2, o \in 0..1, w \in 0..Len(s) :
        /\ Len(s) = l + 1 + o + w + 3
        /\ \A i \in 1..l : IsLetter(s[i])
        /\ IsDigit(s[l + 1])
        /\ o = 1 => (IsLetter(s[l + 2]) \/ IsDigit(s[l + 2]))
        /\ \A i \in (l + o + 2)..(l + o + 1 + w) : IsSpace(s[i])
        /\ IsDigit(s[l + o + w + 2])
        /\ IsLetter(s[l + o + w + 3])
        /\ IsLetter(s[l + o + w + 4])

\* s without its leading and trailing whitespace
Trimmed(s) ==
    LET idx == {i \in 1..Len(s) : ~IsSpace(s[i])}
    IN  IF idx = {} THEN <<>>
        ELSE SubSeq(s, CHOOSE i \in idx : \A j \in idx : i <= j,
                       CHOOSE i \in idx : \A j \in idx : i >= j)

\* C8: no request is issued for a postcode that is empty or does not match
\* the UK postcode pattern.
C8_OnlyValidPostcodesRequested ==
    \A r \in KnownRuns :
        \A k \in 1..Len(r.requests) :
            MatchesPattern(Trimmed(r.requests[k].postcode))

\* C9: handleSubmit classifies the trimmed input: empty -> "Enter a
\* postcode", not matching -> "Invalid UK postcode format", matching ->
\* onSubmit is called; onSubmit is not called in the two failure cases.
C9_ValidationClassifies ==
    lastSubmit.done =>
        LET t == Trimmed(lastSubmit.input)
        IN  /\ validationError = lastSubmit.error
            /\ t = <<>> => lastSubmit.error = ErrEmpty /\ ~lastSubmit.called
            /\ (t # <<>> /\ ~MatchesPattern(t)) =>
                   lastSubmit.error = ErrMalformed /\ ~lastSubmit.called
            /\ (t # <<>> /\ MatchesPattern(t)) =>
                   lastSubmit.error = "" /\ lastSubmit.called /\ lastSubmit.arg = t

C9_Witness ==
    /\ lastSubmit.done
    /\ lastSubmit.error = ErrMalformed
    /\ Len(lastSubmit.input) >= 5

\* C10: the string passed on by a successful submit is uppercase, has no
\* leading or trailing whitespace and exactly one space, before its last
\* three characters.
C10_SubmittedIsNormalized ==
    lastSubmit.called =>
        LET a == lastSubmit.arg
        IN  /\ \A i \in 1..Len(a) : a[i] \notin LowerLetters
            /\ ~IsSpace(a[1]) /\ ~IsSpace(a[Len(a)])
            /\ {i \in 1..Len(a) : IsSpace(a[i])} = {Len(a) - 3}

C10_Witness ==
    /\ lastSubmit.called
    /\ lastSubmit.arg = <<"A", "1", " ", "1", "A", "A">>
    /\ lastSubmit.input = lastSubmit.arg

C11_OneSelected ==
    /\ selectedVehicle \in VehicleClasses \cup {NoVehicle}
    /\ Cardinality({vc \in VehicleClasses : selectedVehicle = vc}) <= 1

C11_Toggle ==
    click' # click =>
        /\ click'.before = selectedVehicle
        /\ selectedVehicle = click'.card => selectedVehicle' = NoVehicle
        /\ selectedVehicle # click'.card => selectedVehicle' = click'.card

\* C11: clicking the card of the selected vehicle class sets the selection
\* to none; clicking the card of another class sets the selection to that
\* class in the same step; at most one class is selected at any time.
C11_SelectionToggle == [](C11_OneSelected) /\ [][C11_Toggle]_vars

C11_Witness ==
    /\ click.before = "luton_3_5t"
    /\ click.card = "box_7_5t"
    /\ selectedVehicle = "box_7_5t"

\* C12: every new distinct incoming ?postcode= value triggers exactly one
\* request for that value, whether or not a result is displayed.
C12_AutoSubmitPerValue ==
    [][(searchPostcode' # searchPostcode /\ searchPostcode' # <<>>) =>
        /\ Len(runs') = Len(runs) + 1
        /\ runs'[Len(runs')].postcode = searchPostcode']_vars

C14_ExpiryBoundary ==
    LET t == expiryCheck.token
        ahead == t.exp * 1000 - expiryCheck.clock
    IN  (expiryCheck.asked /\ t.parts = 3 /\ t.decodable /\ t.exp # NoExp) =>
            /\ ahead <= 0 => expiryCheck.expired
            /\ (ahead > 0 /\ ahead <= 30000) => expiryCheck.expired
            /\ ahead > 30000 => ~expiryCheck.expired
            /\ expiryCheck.expired <=> expiryCheck.clock >= (t.exp - 30) * 1000
            /\ expiryCheck.loggedIn <=> ~expiryCheck.expired

C14_Witness ==
    /\ expiryCheck.asked
    /\ expiryCheck.token.exp = 60
    /\ expiryCheck.clock = 30000
    /\ expiryCheck.expired

\* the catalogue holds a profile with this class key
Resolvable(vehicleClass) ==
    /\ vehicles.data # NoData
    /\ \E i \in 1..Len(vehicles.data) : vehicles.data[i].vehicle_class = vehicleClass

\* C15: when no profile with the selected class key can be resolved (key
\* absent, catalogue not loaded or its fetch failed) no envelope is
\* rendered, neither rectangle nor circle.
C15_NoEnvelopeWithoutProfile ==
    /\ (selectedVehicle # NoVehicle /\ ~Resolvable(selectedVehicle)) =>
           ~Envelope.rendered /\ Envelope = NoEnvelope
    /\ (result.present /\ selectedVehicle # NoVehicle /\ Resolvable(selectedVehicle)) =>
           Envelope.rendered

C15_Witness ==
    /\ result.present
    /\ selectedVehicle = "box_7_5t"
    /\ vehicles.status = "success"
    /\ vehicles.data = <<LutonProfile>>
    /\ ~Envelope.rendered

C16_EditorOnlyWithId ==
    /\ notesEditor.editing => (result.present /\ result.id # NoId)
    /\ notesRequest # NoNotesRequest => notesRequest.id # NoId

C16_PatchForDisplayedId ==
    notesRequest' # notesRequest =>
        /\ result.present
        /\ result.id # NoId
        /\ notesRequest'.id = result.id
        /\ result' = result

\* C16: a notes update is issued only for the displayed result and only
\* when it carries a persisted id; for a result without id the notes
\* editor is not offered and no notes request is issued.
C16_NotesOnlyWithId == [](C16_EditorOnlyWithId) /\ [][C16_PatchForDisplayedId]_vars

C16_Witness ==
    /\ notesRequest.id # NoId
    /\ result.present
    /\ result.id = NoId
    /\ ~notesEditor.editing
    /\ lastDone.requests # <<>>
    /\ lastDone.requests[1].endpoint = "quick"

Green == "#22c55e"
Amber == "#f59e0b"
Red == "#ef4444"
ColourRank(c) == CASE c = Red -> 0 [] c = Amber -> 1 [] c = Green -> 2

C17_Styled == {i \in 1..2 : styled[i] # NoStyle}

\* C17: a width feature is green at 4.0 m and above, amber from 3.0 m up to
\* but not including 4.0 m, red otherwise; every width gets one of the three
\* colours and a larger width never gets a worse one.
C17_WidthColourBands ==
    /\ \A i \in C17_Styled :
           LET w == styled[i].width_cm
               c == styled[i].color
           IN  /\ c \in {Green, Amber, Red}
               /\ c = Green <=> w >= 400
               /\ c = Amber <=> (w >= 300 /\ w < 400)
               /\ c = Red <=> w < 300
    /\ \A i, j \in C17_Styled :
           styled[i].width_cm <= styled[j].width_cm =>
               ColourRank(styled[i].color) <= ColourRank(styled[j].color)

C17_Witness ==
    /\ styled[1] = [width_cm |-> 400, color |-> Green]
    /\ styled[2] = [width_cm |-> 399, color |-> Amber]

\* the profile find() resolves: the first of the catalogue with the key
C18_Resolved ==
    LET hits == {i \in 1..Len(vehicles.data) :
                    vehicles.data[i].vehicle_class = selectedVehicle}
    IN  vehicles.data[CHOOSE i \in hits : \A j \in hits : i <= j]

\* C18: the body rectangle is centred on the result's (lat, lon) and
\* reaches (width_m / 2) / 69000 degrees of longitude and (length_m / 2) /
\* 111320 degrees of latitude to each side; the turning circle has the
\* same centre and radius turning_radius_m.
C18_EnvelopeProjection ==
    Envelope.rendered =>
        LET b == Envelope.bounds
            lat == result.shape.latitude
            lon == result.shape.longitude
            v == C18_Resolved
            halfW == b.east - lon
            halfL == b.north - lat
        IN  /\ b.south + b.north = 2 * lat
            /\ b.west + b.east = 2 * lon
            /\ halfW > 0 /\ halfL > 0
            /\ halfW % v.width_cm = 0
            /\ DegUnit % (2 * 100 * 69000) = 0
            /\ halfW \div v.width_cm = DegUnit \div (2 * 100 * 69000)
            /\ halfL % v.length_cm = 0
            /\ DegUnit % (2 * 100 * 111320) = 0
            /\ halfL \div v.length_cm = DegUnit \div (2 * 100 * 111320)
            /\ \A i \in 1..Len(vehicles.data) :
                   LET q == vehicles.data[i]
                   IN  /\ halfW * q.width_cm = halfWidthDeg(q.width_cm) * v.width_cm
                       /\ halfL * q.length_cm = halfLengthDeg(q.length_cm) * v.length_cm
            /\ Envelope.center = <<lat, lon>>
            /\ Envelope.radius_cm = v.turning_radius_cm

C18_Witness ==
    /\ Envelope.rendered
    /\ selectedVehicle = "luton_3_5t"
    /\ vehicles.data = <<LutonWideProfile, LutonProfile>>
    /\ Envelope.bounds.east - Envelope.bounds.west = 2 * 440 * 121
    /\ Envelope.radius_cm = 710

\* the response a failed run failed on
C19_Final(r) ==
    IF r.quick # NoResponse THEN [status |-> r.quick.status, body |-> r.quick.body]
    ELSE [status |-> r.authStatus, body |-> r.authBody]

C19_FailureMessage ==
    \A r \in KnownRuns :
        (r.pc = "failed" /\ C19_Final(r).status # NetworkFailure) =>
            LET final == C19_Final(r)
            IN  /\ final.status \notin 200..299
                /\ r.quick = NoResponse =>
                       /\ r.authStatus \notin {401, 403, 404}
                       /\ Len(r.requests) = 1
                       /\ r.requests[1].endpoint = "auth"
                /\ final.body = DetailBody =>
                       r.err = [text |-> "Postcode not found", status |-> NoStatus]
                /\ final.body = NotJsonBody =>
                       r.err = [text |-> "Assessment failed", status |-> final.status]
                /\ ~r.res.present

C19_FailureStep ==
    (lastDone' # lastDone /\ lastDone'.pc = "failed") =>
        /\ token' = token
        /\ lastDone'.requests = runs[lastDone'.id].requests

\* C19: a non-2xx answer other than 401/403/404 on the authenticated path,
\* or any non-2xx answer on the anonymous path, makes runAssessment throw
\* the server's detail, or "Assessment failed (<status>)" when the body does
\* not parse, with no further request and the stored credential untouched.
C19_ErrorMessages == [](C19_FailureMessage) /\ [][C19_FailureStep]_vars

C19_Witness ==
    /\ lastDone.pc = "failed"
    /\ lastDone.authStatus = 500
    /\ lastDone.authBody = NotJsonBody
    /\ lastDone.err = [text |-> "Assessment failed", status |-> 500]
    /\ Len(lastDone.requests) = 1
    /\ token = JwtToken

C20_RequestCount ==
    \A r \in KnownRuns :
        /\ Len(r.requests) \in 1..2
        /\ Cardinality({k \in 1..Len(r.requests) : r.requests[k].endpoint = "auth"}) <= 1
        /\ Cardinality({k \in 1..Len(r.requests) : r.requests[k].endpoint = "quick"}) <= 1
        /\ \A k \in 1..Len(r.requests) :
               r.requests[k].endpoint = "quick" => k = Len(r.requests)
        /\ r.authStatus \in 200..299 =>
               /\ r.pc = "ok"
               /\ Len(r.requests) = 1
               /\ r.quick = NoResponse
               /\ r.res.present /\ r.res.id = r.id /\ r.res.postcode = r.postcode

C20_SuccessStep ==
    (lastDone' # lastDone /\ lastDone'.authStatus \in 200..299) =>
        /\ token' = token
        /\ lastDone'.requests = runs[lastDone'.id].requests

C20_NoRequestAfterEnd ==
    \A i \in 1..Len(runs) : runs[i].pc = "done" => runs'[i] = runs[i]

\* C20: one run of runAssessment issues at most two requests, at most one
\* to each endpoint, none after the anonymous one; a successful
\* authenticated answer is returned with no anonymous request and leaves
\* the stored credential as it was.
C20_NoRetries ==
    [](C20_RequestCount) /\ [][C20_SuccessStep /\ C20_NoRequestAfterEnd]_vars

C20_Witness ==
    /\ lastDone.pc = "ok"
    /\ lastDone.authStatus = 200
    /\ Len(lastDone.requests) = 1
    /\ lastDone.requests[1].bearer = JwtToken
    /\ token = JwtToken

\* C21: the stale-token fallback removes only the credential the server
\* rejected: when the credential in storage is no longer the one the
\* rejected request carried (a login stored a new one meanwhile), the
\* 401/403/404 leaves the stored credential as it is.
C21_FallbackKeepsNewCredential ==
    [][\A i \in 1..Len(runs) :
          /\ runs[i].pc = "auth" /\ runs'[i].pc = "quick"
          /\ token # runs[i].requests[1].bearer
          /\ Truthy(token)
          => token' = token]_vars

\* C23: for a stored credential that does not have exactly three segments,
\* whose second segment is not decodable, or whose payload has no expiry,
\* isTokenExpired is true and isLoggedIn is false at every instant, and no
\* call of isLoggedIn raises an error, whatever is stored.
C23_DecodeFailsTowardExpired ==
    LET t == expiryCheck.token
    IN  /\ ~expiryCheck.threw
        /\ (expiryCheck.asked /\ (t.parts # 3 \/ ~t.decodable \/ t.exp = NoExp)) =>
               /\ expiryCheck.expired
               /\ ~expiryCheck.loggedIn
        /\ ~expiryCheck.asked => ~expiryCheck.loggedIn

C23_Witness ==
    /\ expiryCheck.asked
    /\ expiryCheck.token.parts = 3
    /\ ~expiryCheck.token.decodable
    /\ expiryCheck.expired
    /\ ~expiryCheck.loggedIn
    /\ expiryCheck.clock = 0

\* a step in which the credential is read: isLoggedIn is evaluated, or
\* runAssessment starts and calls getAccessToken
C22_Reads == expiryCheck' # expiryCheck \/ Len(runs') > Len(runs)

C22_ReadersKeepToken == C22_Reads => token' = token

C22_OnlySetAndClear ==
    token' # token =>
        \/ \E t \in Tokens : Login(t)
        \/ Logout
        \/ \E i \in 1..Len(runs) :
              /\ runs[i].pc = "auth" /\ runs'[i].pc = "quick"
              /\ runs'[i].authStatus \in Stale
              /\ token' = NoToken
        \/ /\ userQuery = "fetching" /\ userQuery' = "idle"
           /\ token' = NoToken

C22_ReadsSeeStorage ==
    /\ expiryCheck' # expiryCheck =>
           /\ expiryCheck'.token = token
           /\ token = NoToken => ~expiryCheck'.loggedIn
    /\ Len(runs') > Len(runs) =>
           LET first == runs'[Len(runs')].requests[1]
           IN  IF Truthy(token)
               THEN first.endpoint = "auth" /\ first.bearer = token
               ELSE first.endpoint = "quick" /\ first.bearer = NoToken

\* C22: reading the credential (getAccessToken, isTokenExpired, isLoggedIn)
\* never changes it; it changes only by setAccessToken at login and by
\* clearAuthState at logout, on a stale-token answer and on a 401/403 of
\* the current-user query; and every read returns what is stored at that
\* moment (isLoggedIn is false once it is cleared).
C22_StorageContract ==
    [][C22_ReadersKeepToken /\ C22_OnlySetAndClear /\ C22_ReadsSeeStorage]_vars

C22_Witness ==
    /\ token = GarbageToken
    /\ expiryCheck.token = GarbageToken
    /\ lastDone.authStatus = 401

\* C24: once the map view is unmounted (the controller's reference is
\* null again), no map instance created on the container during the view's
\* lifetime is still undisposed, a replaced one included.
C24_NoLiveMapAfterUnmount ==
    mapRef = NoMap => \A m \in 1..Len(maps) : maps[m].removed

\* C25: the selected vehicle class is none, or the class of one of the
\* vehicle assessments of the displayed result; nothing is selected while
\* no result is displayed.
C25_SelectionWithinResult ==
    selectedVehicle # NoVehicle =>
        /\ result.present
        /\ selectedVehicle \in result.shape.vehicles

\* a result without the 7.5 t box van replaced one in which it was
\* selected
C25_Witness ==
    /\ result.present
    /\ result.shape = ShapeB
    /\ click.card = "box_7_5t"
    /\ click.before = NoVehicle
    /\ selectedVehicle = NoVehicle

\* C26: when a result with a different id replaces the displayed one, the
\* notes editor starts closed: an edit mode (and the draft in it) opened
\* on the previous result does not carry over to the new assessment id, so
\* it cannot be saved for it.
C26_EditorClosedOnNewResult ==
    [][(/\ result.present /\ result'.present
        /\ result.id # NoId /\ result'.id # NoId
        /\ result'.id # result.id)
       => ~notesEditor'.editing]_vars

C27_FlightPerResult ==
    assessment' # assessment /\ assessment'.present =>
        /\ Len(camera'.flights) = Len(camera.flights) + 1
        /\ camera'.flights[Len(camera'.flights)] =
               [centre |-> <<assessment'.shape.latitude, assessment'.shape.longitude>>,
                zoom |-> ASSESSMENT_ZOOM, duration |-> FlyDuration]

C27_NoFlightBeforeResult == ~assessment.present => camera = DefaultCamera

\* C27: every new result handed to the map issues one flyTo to the
\* result's latitude and longitude at zoom 17 lasting 1.5 s; before any
\* result the view is the default centre at zoom 10 and no flyTo is made.
C27_CameraTransitions ==
    [](C27_NoFlightBeforeResult) /\ [][C27_FlightPerResult]_vars

\* C28: for every value that matches POSTCODE_RE, formatPostcode of it
\* (whitespace stripped, uppercased, one space before the last three
\* characters) matches POSTCODE_RE too.
C28_FormatKeepsValid ==
    (formatted.done /\ POSTCODE_RE(formatted.input)) =>
        /\ POSTCODE_RE(formatted.output)
        /\ StripSpaces(formatted.output) = toUpperCase(StripSpaces(formatted.input))

C28_Witness ==
    /\ formatted.done
    /\ formatted.input = <<"b", "n", "1", "a", " ", " ", "1", "n", "n">>
    /\ formatted.output = <<"B", "N", "1", "A", " ", "1", "N", "N">>
    /\ POSTCODE_RE(formatted.input)

C30_Styled == {i \in 1..2 : gradStyled[i] # NoGradientStyle}

\* C30: the gradient profile is green up to and including 5 %, amber above
\* 5 % up to and including 8 %, red above; every gradient (a missing one
\* counts as 0) gets one of the three colours, a steeper one never a better
\* colour, and weight 5 and opacity 0.8 do not depend on the data.
C30_GradientColourBands ==
    /\ \A i \in C30_Styled :
           LET raw == gradStyled[i].max_gradient
               g == IF raw = MissingGradient THEN 0 ELSE raw
               c == gradStyled[i].color
           IN  /\ c \in {Green, Amber, Red}
               /\ c = Green <=> g <= 50
               /\ c = Amber <=> (g > 50 /\ g <= 80)
               /\ c = Red <=> g > 80
               /\ gradStyled[i].weight = 5
               /\ gradStyled[i].opacity = 8
    /\ \A i, j \in C30_Styled :
           (gradStyled[i].max_gradient # MissingGradient
            /\ gradStyled[j].max_gradient # MissingGradient
            /\ gradStyled[i].max_gradient <= gradStyled[j].max_gradient) =>
               ColourRank(gradStyled[i].color) >= ColourRank(gradStyled[j].color)

C30_Witness ==
    /\ gradStyled[1].max_gradient = 50 /\ gradStyled[1].color = Green
    /\ gradStyled[2].max_gradient = 51 /\ gradStyled[2].color = Amber

====
